---- MODULE Spec2Model ----
(***************************************************************************)
(* Model of src/bin/pairings.rs: the card-exchange pairing program.        *)
(* main sorts the request vector, generate_pairings builds a 0/1 linear    *)
(* program, hands it to the SCIP backend, decodes the returned assignment  *)
(* into a list of directed pairings, main indexes and reports them and     *)
(* visualize_solution_matrix renders them as an RGB grid.                  *)
(*                                                                         *)
(* The backend is an external library.  It is modelled by its contract on  *)
(* the model the code hands to it: every variable is Binary with bounds    *)
(* [0,1], so the problem is never unbounded; the status is Optimal with an *)
(* assignment that satisfies every constraint and maximises the objective  *)
(* when such an assignment exists, and Infeasible otherwise.               *)
(***************************************************************************)
EXTENDS Integers, Sequences, FiniteSets, TLC

\* ---- bounds of the model -------------------------------------------------
MaxN == 3          \* longest request vector
MaxReq == 2        \* largest requested count; the smallest is -1

\* ---- program constants ---------------------------------------------------
cell_size == 9
border_size == 1
color_scale == 128
white == <<255, 255, 255>>
blue == <<0, 100, 200>>

VARIABLES pc, nums, model, status, sol, pairings, pairings_by_sender,
          pairings_by_receiver, stdout, stderr, img, error

vars == <<pc, nums, model, status, sol, pairings, pairings_by_sender,
          pairings_by_receiver, stdout, stderr, img, error>>

\* ---- helpers ---------------------------------------------------------------
RECURSIVE SeqSum(_)
SeqSum(s) == IF s = <<>> THEN 0 ELSE Head(s) + SeqSum(Tail(s))

SetMax(S) == CHOOSE m \in S : \A e \in S : e <= m

\* nums.sort(): ascending insertion into the sorted prefix
RECURSIVE Insert(_, _)
Insert(v, s) ==
    IF s = <<>> THEN <<v>>
    ELSE IF v <= Head(s) THEN <<v>> \o s
    ELSE <<Head(s)>> \o Insert(v, Tail(s))

RECURSIVE Sort(_)
Sort(s) == IF s = <<>> THEN <<>> ELSE Insert(Head(s), Sort(Tail(s)))

\* the pairs (i, j), i < j < n, in the order of the nested loops
RECURSIVE UpperPairs(_, _, _)
UpperPairs(i, j, n) ==
    IF i >= n THEN <<>>
    ELSE IF j >= n THEN UpperPairs(i + 1, i + 2, n)
    ELSE << <<i, j>> >> \o UpperPairs(i, j + 1, n)

\* all pairs (i, j), i, j < n, in the order of the nested loops
RECURSIVE AllPairs(_, _, _)
AllPairs(i, j, n) ==
    IF i >= n THEN <<>>
    ELSE IF j >= n THEN AllPairs(i + 1, 0, n)
    ELSE << <<i, j>> >> \o AllPairs(i, j + 1, n)

\* ---- generate_pairings: the model builder ----------------------------------
\* x[i][j]: the variables are added row by row, so x[i][j] is variable i*n+j
x(n, i, j) == i * n + j

ObjSenseMinimize == "Minimize"
ObjSense == "Maximize"

\* model.add_var(0., 1., 1., "adjacency", VarType::Binary)
AddVarNoObjective == [lb |-> 0, ub |-> 1, obj |-> 0, vtype |-> "Binary"]
AddVar == [lb |-> 0, ub |-> 1, obj |-> 1, vtype |-> "Binary"]

Row(n, i) == [k \in 1..n |-> x(n, i, k - 1)]
Column(n, i) == [k \in 1..n |-> x(n, k - 1, i)]
Repeat(v, n) == [k \in 1..n |-> v]

\* Nobody sends a card to themself.
NoSelfExchangeLoose(n, i) ==
    [vars |-> <<x(n, i, i)>>, coefs |-> <<1>>, lhs |-> 0, rhs |-> 1,
     name |-> "no_self_exchange"]
NoSelfExchange(n, i) ==
    [vars |-> <<x(n, i, i)>>, coefs |-> <<1>>, lhs |-> 0, rhs |-> 0,
     name |-> "no_self_exchange"]

\* Nobody sends a card to someone who sent a card to them.
NoMutualExchangeLoose(n, i, j) ==
    [vars |-> <<x(n, i, j), x(n, j, i)>>, coefs |-> <<1, 1>>,
     lhs |-> 0, rhs |-> 2, name |-> "no_mutual_exchange"]
NoMutualExchange(n, i, j) ==
    [vars |-> <<x(n, i, j), x(n, j, i)>>, coefs |-> <<1, 1>>,
     lhs |-> 0, rhs |-> 1, name |-> "no_mutual_exchange"]

\* Nobody sends more cards than they signed up for.
NumCardsOffByOne(n, i, num_cards) ==
    [vars |-> Row(n, i), coefs |-> Repeat(1, n), lhs |-> 0,
     rhs |-> num_cards + 1, name |-> "num_cards"]
NumCards(n, i, num_cards) ==
    [vars |-> Row(n, i), coefs |-> Repeat(1, n), lhs |-> 0,
     rhs |-> num_cards, name |-> "num_cards"]

\* Everyone receives a card for every card they send: the row of i with
\* coefficient +1 followed by the column of i with coefficient -1.
CardBalanceLoose(n, i) ==
    [vars |-> Row(n, i) \o Column(n, i),
     coefs |-> Repeat(1, n) \o Repeat(0 - 1, n), lhs |-> 0 - n, rhs |-> n,
     name |-> "card_balance"]
CardBalance(n, i) ==
    [vars |-> Row(n, i) \o Column(n, i),
     coefs |-> Repeat(1, n) \o Repeat(0 - 1, n), lhs |-> 0, rhs |-> 0,
     name |-> "card_balance"]

\* the model at the call of solve(): n*n variables and the four families
BuildModel(cards_for_participant) ==
    LET n == Len(cards_for_participant)
        up == UpperPairs(0, 1, n)
    IN [n |-> n,
        sense |-> ObjSense,
        vars |-> [v \in 0..(n * n - 1) |-> AddVar],
        cons |-> [k \in 1..n |-> NoSelfExchange(n, k - 1)]
              \o [k \in 1..Len(up) |-> NoMutualExchange(n, up[k][1], up[k][2])]
              \o [k \in 1..n |-> NumCards(n, k - 1, cards_for_participant[k])]
              \o [k \in 1..n |-> CardBalance(n, k - 1)]]

\* ---- the backend's contract ------------------------------------------------
RECURSIVE Dot(_, _, _)
Dot(coefs, vs, a) ==
    IF coefs = <<>> THEN 0
    ELSE Head(coefs) * a[Head(vs)] + Dot(Tail(coefs), Tail(vs), a)

Satisfies(c, a) ==
    LET s == Dot(c.coefs, c.vars, a) IN c.lhs <= s /\ s <= c.rhs

Assignments(m) == [DOMAIN m.vars -> {0, 1}]

Feasible(m) ==
    {a \in Assignments(m) : \A k \in 1..Len(m.cons) : Satisfies(m.cons[k], a)}

Objective(m, a) ==
    LET n == m.n
        cells == AllPairs(0, 0, n)
    IN SeqSum([k \in 1..Len(cells) |->
                  m.vars[x(n, cells[k][1], cells[k][2])].obj
                    * a[x(n, cells[k][1], cells[k][2])]])

SetMin(S) == CHOOSE m \in S : \A e \in S : m <= e

\* the assignments of F the backend may report as the best solution
Best(m, F) ==
    LET values == {Objective(m, a) : a \in F}
        best == IF m.sense = "Maximize" THEN SetMax(values) ELSE SetMin(values)
    IN {a \in F : Objective(m, a) = best}

\* ---- generate_pairings: the solution decoder -------------------------------
\* sol.val(&x[i][j]) >= 0.9, the values being 0 or 1
AboveThreshold(v) == 10 * v >= 9

Decode(n, a) ==
    SelectSeq(AllPairs(0, 0, n), LAMBDA p : AboveThreshold(a[x(n, p[1], p[2])]))

\* ---- main: the pairing index and the report --------------------------------
BySender(ps, n) ==
    [k \in 1..n |->
        LET mine == SelectSeq(ps, LAMBDA p : p[1] = k - 1)
        IN [q \in 1..Len(mine) |-> mine[q][2]]]

ByReceiver(ps, n) ==
    [k \in 1..n |->
        LET mine == SelectSeq(ps, LAMBDA p : p[2] = k - 1)
        IN [q \in 1..Len(mine) |-> mine[q][1]]]

RECURSIVE ReportLines(_, _, _, _)
ReportLines(i, ns, bs, br) ==
    IF i >= Len(ns) THEN <<>>
    ELSE << <<"Participant", i, ns[i + 1], Len(bs[i + 1]), Len(br[i + 1])>> >>
         \o [q \in 1..Len(bs[i + 1]) |-> <<"send", bs[i + 1][q]>>]
         \o [q \in 1..Len(br[i + 1]) |-> <<"receive", br[i + 1][q]>>]
         \o ReportLines(i + 1, ns, bs, br)

\* ---- visualize_solution_matrix ---------------------------------------------
image_size(n) == n * cell_size + (n + 1) * border_size

row_counts(ps, n) == [i \in 0..(n - 1) |-> Cardinality({k \in 1..Len(ps) : ps[k][1] = i})]
col_counts(ps, n) == [j \in 0..(n - 1) |-> Cardinality({k \in 1..Len(ps) : ps[k][2] = j})]

\* counts.iter().max().unwrap_or(&1): 1 only for an empty vector
MaxCount(counts) ==
    IF DOMAIN counts = {} THEN 1
    ELSE SetMax({counts[i] : i \in DOMAIN counts})

\* (256.0 - (count as f32 / max as f32) * color_scale) as u8.
\* 0/0 is NaN and c/0 is infinite; a float-to-u8 cast maps NaN to 0,
\* truncates toward zero and saturates at 0 and 255.  For max > 0 the
\* real value is 256 - 128*count/max, whose truncation is
\* 256 - ceil(128*count/max); f32 rounding cannot cross an integer here,
\* because 128*count/max is an integer only when count/max is dyadic.
GreyValue(count, max) ==
    IF max = 0 THEN 0
    ELSE LET v == 256 - ((color_scale * count + max - 1) \div max)
         IN IF v > 255 THEN 255 ELSE IF v < 0 THEN 0 ELSE v

Grey(shade) == <<shade, shade, shade>>

HasPairingOrSelf(ps, row, col) ==
    row = col \/ \E k \in 1..Len(ps) : ps[k][1] = row /\ ps[k][2] = col
HasPairing(ps, row, col) ==
    \E k \in 1..Len(ps) : ps[k][1] = row /\ ps[k][2] = col

\* the colour the cell loop writes at offset (dx, dy) of cell (row, col)
CellColor(ps, n, row, col, dx, dy) ==
    IF HasPairing(ps, row, col) THEN blue
    ELSE IF dx >= dy
         THEN Grey(GreyValue(col_counts(ps, n)[col],
                             MaxCount(col_counts(ps, n))))
         ELSE Grey(GreyValue(row_counts(ps, n)[row],
                             MaxCount(row_counts(ps, n))))

start_x(col) == border_size + col * (cell_size + border_size)
start_y(row) == border_size + row * (cell_size + border_size)

\* the body of the cell loop for one cell: put_pixel on each of its pixels
FillCell(image, ps, n, row, col) ==
    [p \in DOMAIN image |->
        IF /\ p[1] \in start_x(col)..(start_x(col) + cell_size - 1)
           /\ p[2] \in start_y(row)..(start_y(row) + cell_size - 1)
        THEN CellColor(ps, n, row, col, p[1] - start_x(col), p[2] - start_y(row))
        ELSE image[p]]

RECURSIVE FillCells(_, _, _, _)
FillCells(image, ps, n, cells) ==
    IF cells = <<>> THEN image
    ELSE FillCells(FillCell(image, ps, n, Head(cells)[1], Head(cells)[2]),
                   ps, n, Tail(cells))

\* the canvas before img.save: all white, then the cell loop
Render(ps, ns) ==
    LET n == Len(ns)
        side == 0..(image_size(n) - 1)
    IN FillCells([p \in side \X side |-> white], ps, n, AllPairs(0, 0, n))

\* ---- the program -----------------------------------------------------------
Requests == (0 - 1)..MaxReq

NoModel == [n |-> 0, sense |-> "none", vars |-> <<>>, cons |-> <<>>]

Init ==
    /\ pc = "start"
    /\ nums \in UNION {[1..len -> Requests] : len \in 0..MaxN}
    /\ model = NoModel
    /\ status = "Unsolved"
    /\ sol = <<>>
    /\ pairings = <<>>
    /\ pairings_by_sender = <<>>
    /\ pairings_by_receiver = <<>>
    /\ stdout = <<>>
    /\ stderr = <<>>
    /\ img = <<>>
    /\ error = "none"

\* main: sort the numbers.  stdout holds what main prints of the result; the
\* echo of the arguments before the sort is not part of it.
Start ==
    /\ pc = "start"
    /\ nums' = Sort(nums)
    /\ pc' = "generate_pairings"
    /\ UNCHANGED <<model, status, sol, pairings, pairings_by_sender,
                   pairings_by_receiver, stdout, stderr, img, error>>

\* generate_pairings up to the call of solve
Build ==
    /\ pc = "generate_pairings"
    /\ model' = BuildModel(nums)
    /\ stdout' = Append(stdout, <<"Attempting to solve...">>)
    /\ pc' = "solve"
    /\ UNCHANGED <<nums, status, sol, pairings, pairings_by_sender,
                   pairings_by_receiver, stderr, img, error>>

\* model.solve(): Infeasible when no assignment satisfies the constraints,
\* otherwise Optimal with one of the best assignments
Solve ==
    /\ pc = "solve"
    /\ LET F == Feasible(model)
       IN IF F = {}
          THEN /\ status' = "Infeasible"
               /\ sol' = sol
          ELSE /\ status' = "Optimal"
               /\ sol' \in Best(model, F)
    /\ pc' = "solved"
    /\ UNCHANGED <<nums, model, pairings, pairings_by_sender,
                   pairings_by_receiver, stdout, stderr, img, error>>

\* status != Optimal: bail!, and main's unwrap panics
Bail ==
    /\ pc = "solved"
    /\ status # "Optimal"
    /\ error' = "Optimal solution not found"
    /\ pc' = "panicked"
    /\ UNCHANGED <<nums, model, status, sol, pairings, pairings_by_sender,
                   pairings_by_receiver, stdout, stderr, img>>

\* status == Optimal: decode the solution and return it to main
Return ==
    /\ pc = "solved"
    /\ status = "Optimal"
    /\ stdout' = Append(stdout, <<"Solved. Objective value", Objective(model, sol)>>)
    /\ pairings' = Decode(model.n, sol)
    /\ pc' = "index"
    /\ UNCHANGED <<nums, model, status, sol, pairings_by_sender,
                   pairings_by_receiver, stderr, img, error>>

\* main: group the pairings by sender and by receiver
Index ==
    /\ pc = "index"
    /\ pairings_by_sender' = BySender(pairings, Len(nums))
    /\ pairings_by_receiver' = ByReceiver(pairings, Len(nums))
    /\ pc' = "report"
    /\ UNCHANGED <<nums, model, status, sol, pairings, stdout, stderr, img,
                   error>>

\* main: the per-participant report
Report ==
    /\ pc = "report"
    /\ stdout' = stdout \o ReportLines(0, nums, pairings_by_sender,
                                        pairings_by_receiver)
    /\ pc' = "totals"
    /\ UNCHANGED <<nums, model, status, sol, pairings, pairings_by_sender,
                   pairings_by_receiver, stderr, img, error>>

\* main: the totals
Totals ==
    /\ pc = "totals"
    /\ stdout' = stdout \o << <<"Total number of participants", Len(nums)>>,
                              <<"Total number of pairings", Len(pairings)>> >>
    /\ pc' = "visualize"
    /\ UNCHANGED <<nums, model, status, sol, pairings, pairings_by_sender,
                   pairings_by_receiver, stderr, img, error>>

\* visualize_solution_matrix renders and img.save succeeds
VisualizeOk ==
    /\ pc = "visualize"
    /\ img' = Render(pairings, nums)
    /\ stdout' = Append(stdout, <<"Matrix visualization saved as", "solution.png">>)
    /\ pc' = "done"
    /\ UNCHANGED <<nums, model, status, sol, pairings, pairings_by_sender,
                   pairings_by_receiver, stderr, error>>

\* visualize_solution_matrix renders, img.save fails, main reports it
VisualizeErrAbort ==
    /\ pc = "visualize"
    /\ img' = Render(pairings, nums)
    /\ error' = "IOError"
    /\ pairings' = <<>>
    /\ pc' = "panicked"
    /\ UNCHANGED <<nums, model, status, sol, pairings_by_sender,
                   pairings_by_receiver, stdout, stderr>>
VisualizeErr ==
    /\ pc = "visualize"
    /\ img' = Render(pairings, nums)
    /\ stderr' = Append(stderr, <<"Failed to create visualization", "IOError">>)
    /\ pc' = "done"
    /\ UNCHANGED <<nums, model, status, sol, pairings, pairings_by_sender,
                   pairings_by_receiver, stdout, error>>

Next ==
    \/ Start
    \/ Build
    \/ Solve
    \/ Bail
    \/ Return
    \/ Index
    \/ Report
    \/ Totals
    \/ VisualizeOk
    \/ VisualizeErr

Spec == Init /\ [][Next]_vars

\* ---- properties -------------------------------------------------------------
\* generate_pairings has returned Ok and main holds its result
Returned == pc \in {"index", "report", "totals", "visualize", "done"}

Participants == 0..(Len(nums) - 1)
Sent(i) == Cardinality({k \in 1..Len(pairings) : pairings[k][1] = i})
Received(i) == Cardinality({k \in 1..Len(pairings) : pairings[k][2] = i})
Paired(i, j) == \E k \in 1..Len(pairings) : pairings[k] = <<i, j>>
NonNegative == \A k \in 1..Len(nums) : nums[k] >= 0

\* C1: every participant is the sender of exactly as many returned pairings
\* as it is the receiver of.
C1_FlowBalance ==
    Returned => \A i \in Participants : Sent(i) = Received(i)

C1_Witness ==
    /\ Returned
    /\ \E i, j, k \in Participants :
          /\ Paired(i, j) /\ Paired(k, i) /\ j # k
          /\ Sent(i) = 1

\* C2: of the two directions (i,j) and (j,i) of a pair of distinct
\* participants at most one is among the returned pairings.
C2_NoMutualExchange ==
    Returned => \A i, j \in Participants :
                    i # j => ~(Paired(i, j) /\ Paired(j, i))

C2_Witness ==
    /\ Returned
    /\ \E i, j \in Participants :
          /\ Paired(i, j) /\ ~Paired(j, i)
          /\ Sent(j) < nums[j + 1]

\* C3: no participant is the sender of more returned pairings than the
\* count it requested.
C3_SenderCapacity ==
    Returned => \A i \in Participants : Sent(i) <= nums[i + 1]

C3_Witness ==
    /\ Returned
    /\ \E i \in Participants : nums[i + 1] >= 1 /\ Sent(i) = nums[i + 1]

\* C4: no returned pairing has its sender as its receiver, although the
\* decoding loop visits the cells with i = j too.
C4_NoSelfPairing ==
    Returned => \A k \in 1..Len(pairings) : pairings[k][1] # pairings[k][2]

C4_Witness ==
    /\ Returned
    /\ Len(pairings) >= 1
    /\ \E i \in Participants : nums[i + 1] > Sent(i)

\* a set of directed pairings that meets the four requirements for requests ns
ValidPairingSet(S, ns) ==
    /\ \A p \in S : p[1] # p[2]
    /\ \A p \in S : <<p[2], p[1]>> \notin S
    /\ \A i \in 0..(Len(ns) - 1) :
          /\ Cardinality({p \in S : p[1] = i}) <= ns[i + 1]
          /\ Cardinality({p \in S : p[1] = i}) = Cardinality({p \in S : p[2] = i})

NonSelfPairs == {p \in Participants \X Participants : p[1] # p[2]}

\* C5: with non-negative requests, no set of directed pairings that
\* satisfies no-self, no-mutual-exchange, sender-capacity and flow-balance has
\* more pairings than the returned one.
C5_Optimality ==
    (Returned /\ NonNegative) =>
        /\ ValidPairingSet({pairings[k] : k \in 1..Len(pairings)}, nums)
        /\ \A S \in SUBSET NonSelfPairs :
              ValidPairingSet(S, nums) => Cardinality(S) <= Len(pairings)

C5_Witness ==
    /\ Returned
    /\ Len(pairings) = 3
    /\ \E i \in Participants : Sent(i) < nums[i + 1]

\* C6: a request vector with a negative count is rejected with MalformedInput
\* before the backend is invoked.
C6_NegativeRejectedBeforeSolve ==
    (\E k \in 1..Len(nums) : nums[k] < 0) =>
        /\ pc \notin {"solve", "solved"}
        /\ status = "Unsolved"
        /\ (pc = "panicked" => error = "MalformedInput")

\* the assignment that realises every directed pairing except the self ones
AllNonSelf(m) == [v \in DOMAIN m.vars |-> IF v \div m.n = v % m.n THEN 0 ELSE 1]

\* C7 as claimed: for requests [2,2,2] the 6 directed non-self pairings
\* satisfy every constraint and are a best assignment of the model.
C7_AllSixIsMaximum ==
    (pc = "solve" /\ nums = <<2, 2, 2>>) =>
        /\ AllNonSelf(model) \in Feasible(model)
        /\ AllNonSelf(model) \in Best(model, Feasible(model))

\* C7 as amended: for requests [2,2,2] the 6 directed non-self pairings
\* violate no_mutual_exchange; every result has exactly 3 pairings, each
\* participant sending one card and receiving one.
C7_ThreeCycle ==
    /\ (pc = "solve" /\ nums = <<2, 2, 2>>) =>
          \E k \in 1..Len(model.cons) :
              /\ model.cons[k].name = "no_mutual_exchange"
              /\ ~Satisfies(model.cons[k], AllNonSelf(model))
    /\ (Returned /\ nums = <<2, 2, 2>>) =>
          /\ Len(pairings) = 3
          /\ \A i \in Participants : Sent(i) = 1 /\ Received(i) = 1

C7_Witness ==
    /\ pc = "index"
    /\ nums = <<2, 2, 2>>
    /\ pairings = << <<0, 1>>, <<1, 2>>, <<2, 0>> >>

\* the report and the totals of the pairings are the last lines of stdout
ReportedLast ==
    LET n == Len(nums)
        r == ReportLines(0, nums, BySender(pairings, n), ByReceiver(pairings, n))
           \o << <<"Total number of participants", n>>,
                 <<"Total number of pairings", Len(pairings)>> >>
    IN /\ Len(stdout) >= Len(r)
       /\ SubSeq(stdout, Len(stdout) - Len(r) + 1, Len(stdout)) = r

\* C8: when rendering is attempted the report and the totals have been
\* printed; the rendering step, failed or not, ends the run normally, leaves
\* the pairings as they were, and a failure is written to stderr.
C8_ReportThenRender ==
    [][pc = "visualize" =>
          /\ ReportedLast
          /\ pc' = "done"
          /\ error' = "none"
          /\ pairings' = pairings
          /\ \/ /\ stdout' = Append(stdout, <<"Matrix visualization saved as", "solution.png">>)
                /\ stderr' = stderr
             \/ /\ stdout' = stdout
                /\ stderr' = Append(stderr, <<"Failed to create visualization", "IOError">>)]_vars

C8_Witness ==
    /\ pc = "done"
    /\ stderr # <<>>
    /\ Len(pairings) >= 3

Offsets == 0..(cell_size - 1)
Pixel(row, col, dx, dy) == img[<<start_x(col) + dx, start_y(row) + dy>>]

\* C9 as claimed, taken on a non-empty pairing set, where no count ratio is
\* 0/0: after rendering every pixel of every diagonal cell is white.
C9_DiagonalStaysWhite ==
    (pc = "done" /\ pairings # <<>>) =>
        \A i \in Participants : \A dx, dy \in Offsets : Pixel(i, i, dx, dy) = white

\* C9 as amended: a diagonal cell is written by the diagonal-split branch,
\* never by the active one: each pixel holds a grey of the participant's
\* column count where dx >= dy and of its row count where dx < dy, which is
\* 128 when that count is the axis maximum and the maximum is at least 1.
C9_DiagonalIsSplit ==
    pc = "done" =>
        \A i \in Participants : \A dx, dy \in Offsets :
            LET c == Pixel(i, i, dx, dy)
                count == IF dx >= dy THEN Received(i) ELSE Sent(i)
                max == IF dx >= dy
                       THEN SetMax({Received(j) : j \in Participants})
                       ELSE SetMax({Sent(j) : j \in Participants})
            IN /\ c # blue
               /\ c[1] = c[2] /\ c[2] = c[3]
               /\ (max >= 1 /\ count = max) => c = <<128, 128, 128>>

C9_Witness ==
    /\ pc = "done"
    /\ Len(pairings) = 3
    /\ \A i \in Participants :
          /\ Pixel(i, i, 0, 1) = <<128, 128, 128>>
          /\ Pixel(i, i, 1, 0) = <<128, 128, 128>>

\* C10: when the largest row (column) count is 0 and there is at least one
\* participant, the row (column) triangle of every unrealized cell has the
\* lightest grey, 255.
C10_ZeroMaxIsLightest ==
    (pc = "done" /\ Len(nums) >= 1) =>
        \A i, j \in Participants : \A dx, dy \in Offsets :
            /\ (dx < dy /\ \A k \in Participants : Sent(k) = 0)
                  => Pixel(i, j, dx, dy) = white
            /\ (dx >= dy /\ \A k \in Participants : Received(k) = 0)
                  => Pixel(i, j, dx, dy) = white

====
